---- MODULE Spec2Model ----
(***************************************************************************)
(* A model of src/hash_table.c: a separate-chaining hash table mapping     *)
(* string keys to int values.  The heap of `struct node` records is        *)
(* modelled explicitly (node ids, next pointers, a free count per node),   *)
(* so that the pointer manipulation of add / remove / reset / free is      *)
(* translated statement by statement.                                      *)
(***************************************************************************)
EXTENDS Integers, Sequences, FiniteSets, TLC

VARIABLES
  status,   \* "none" | "live" | "destroyed" | "aborted" | "corrupted"
  size,     \* hash_table->size
  total,    \* hash_table->total
  array,    \* hash_table->array : [0..size-1 -> node id or NULL]
  heap,     \* every node ever malloc'ed, in allocation order: [key, value, next]
  frees,    \* frees[n] = how often free() was called on node n
  nadd,     \* history: calls of hash_table_add since create / the last reset
  nrem,     \* history: calls of hash_table_remove that returned 1 since then
  pre,      \* history: the table as it was before the last add, kept while
            \* nothing but the removal of the added entry has followed
  op        \* the last call and what it observed / returned

vars == <<status, size, total, array, heap, frees, nadd, nrem, pre, op>>

----------------------------------------------------------------------------
(* Bounds of the model. *)

\* table sizes passed to hash_table_create range over -1 .. MaxSize
MaxSize == 2
\* at most this many nodes are ever allocated by hash_table_add
MaxNodes == 3
\* direct calls of the hash functions use table sizes 1 .. MaxHashSize
MaxHashSize == 5
\* direct calls of hash_function2 use keys of up to this many chars
MaxKeyLen == 13

----------------------------------------------------------------------------
(* Values of the program. *)

\* the null pointer; node ids are 1, 2, ...
NULL == 0

\* marks the local `prev` of hash_table_remove as not assigned yet: its value
\* is indeterminate and using it is undefined behaviour (see RemoveUnlink)
UNINIT == -1

\* a pointer value that is neither NULL nor a node: what lies in the memory
\* around the bucket array (in front of it, the header of its malloc chunk)
WILD == -2

\* On the modelled build (x86-64) plain `char` is signed: a key is the
\* sequence of its chars as the values (int) key[i] in -128 .. 127, without
\* the terminating NUL.
Chars == -128 .. 127

\* "a", "b", "ab" and a key whose first byte is 0xC3 (UTF-8 "e acute")
Keys == { <<97>>, <<98>>, <<97, 98>>, <<-61, -87>> }

\* the (key, value) pairs passed to hash_table_add: every key with value 1,
\* and "a" with value 2 as well
AddArgs == { <<k, 1>> : k \in Keys } \cup { << <<97>>, 2 >> }

HashFns == { "hash_function1", "hash_function2" }

CreateSizes == -1 .. MaxSize

----------------------------------------------------------------------------
(* C arithmetic. *)

Abs(x) == IF x < 0 THEN -x ELSE x

\* a % b of C (truncating division: the result has the sign of a), b # 0
CRem(a, b) == IF a >= 0 THEN a % Abs(b) ELSE -((-a) % Abs(b))

----------------------------------------------------------------------------
(* Hash functions. *)

\* hash_function1: ((int) key[0]) % hash_table->size.  With size = 0 the
\* division traps (see HashTraps) and no value is returned.
hash_function1(sz, key) ==
  IF sz = 0 THEN 0 ELSE CRem(key[1], sz)

\* the integer division by zero of `% hash_table->size`: SIGFPE on x86-64
HashTraps(hf, sz) == hf = "hash_function1" /\ sz = 0

(* hash_function2 works on an unsigned long (64 bits, LP64) and on IEEE-754 *)
(* doubles (53-bit significand, round to nearest even).  Both exceed the    *)
(* integers of the model checker, so a natural is a sequence of digits in   *)
(* base 2^15, least significant first, without leading zeros (0 is << >>).  *)

\* width of unsigned long
WordBits == 64
\* bits of the significand of a double
MantBits == 53

DigitBits == 3 * 5
Base == 2 ^ DigitBits

Min(x, y) == IF x < y THEN x ELSE y

RECURSIVE Norm(_)
Norm(b) ==
  IF b = << >> \/ b[Len(b)] # 0 THEN b ELSE Norm(SubSeq(b, 1, Len(b) - 1))

RECURSIVE FromNat(_)
FromNat(n) == IF n = 0 THEN << >> ELSE <<n % Base>> \o FromNat(n \div Base)

\* for values below 2^31
RECURSIVE ToNat(_)
ToNat(b) == IF b = << >> THEN 0 ELSE Head(b) + Base * ToNat(Tail(b))

Digit(b, i) == IF i \in 1 .. Len(b) THEN b[i] ELSE 0

\* a + b + carry
RECURSIVE AddBig(_, _, _)
AddBig(a, b, carry) ==
  IF a = << >> /\ b = << >>
  THEN FromNat(carry)
  ELSE LET t == Digit(a, 1) + Digit(b, 1) + carry
       IN Norm(<<t % Base>> \o AddBig(IF a = << >> THEN a ELSE Tail(a),
                                      IF b = << >> THEN b ELSE Tail(b),
                                      t \div Base))

\* b * n + carry for one digit n
RECURSIVE MulDigit(_, _, _)
MulDigit(b, n, carry) ==
  IF b = << >>
  THEN FromNat(carry)
  ELSE LET t == Head(b) * n + carry
       IN Norm(<<t % Base>> \o MulDigit(Tail(b), n, t \div Base))

\* b * Base^q
ShiftDigits(b, q) == IF b = << >> THEN b ELSE [i \in 1 .. q |-> 0] \o b

\* a * b
RECURSIVE MulBig(_, _, _)
MulBig(a, b, j) ==
  IF j > Len(b) THEN << >>
  ELSE AddBig(ShiftDigits(MulDigit(a, b[j], 0), j - 1), MulBig(a, b, j + 1), 0)

\* number of significant bits of one digit, of a natural
DigitLen(d) == IF d = 0 THEN 0 ELSE CHOOSE k \in 1 .. DigitBits : 2 ^ (k - 1) <= d /\ d < 2 ^ k
BitLen(b) == IF b = << >> THEN 0 ELSE DigitBits * (Len(b) - 1) + DigitLen(b[Len(b)])

\* bit i of b, the least significant bit being bit 0
TestBit(b, i) == (Digit(b, (i \div DigitBits) + 1) \div 2 ^ (i % DigitBits)) % 2

\* b * 2^s
ShiftLeft(b, s) == ShiftDigits(MulDigit(b, 2 ^ (s % DigitBits), 0), s \div DigitBits)

\* b div 2^s
ShiftRight(b, s) ==
  LET q == s \div DigitBits
      r == s % DigitBits
  IN Norm([i \in 1 .. (IF Len(b) > q THEN Len(b) - q ELSE 0) |->
             (Digit(b, i + q) \div 2 ^ r)
               + (Digit(b, i + q + 1) % 2 ^ r) * 2 ^ (DigitBits - r)])

\* b mod 2^s
Low(b, s) ==
  LET q == s \div DigitBits
      r == s % DigitBits
  IN Norm([i \in 1 .. Min(Len(b), q + 1) |->
             IF i <= q THEN b[i] ELSE b[i] % 2 ^ r])

\* b / 2^s rounded to the nearest integer, ties to even
RoundShift(b, s) ==
  LET q == ShiftRight(b, s)
  IN IF s > 0 /\ TestBit(b, s - 1) = 1
          /\ (Low(b, s - 1) # << >> \/ TestBit(q, 0) = 1)
     THEN AddBig(q, << >>, 1)
     ELSE q

\* the double nearest to the natural b, as mant * 2^exp
ToDouble(b) ==
  IF BitLen(b) <= MantBits
  THEN [mant |-> b, exp |-> 0]
  ELSE [mant |-> RoundShift(b, BitLen(b) - MantBits), exp |-> BitLen(b) - MantBits]

\* 2^64 - 1
WordMax == Low([i \in 1 .. (WordBits \div DigitBits) + 1 |-> Base - 1], WordBits)

\* (unsigned long) c for the int c of a char: negative values wrap modulo
\* 2^64, -n becoming (2^64 - 1) - (n - 1)
CharToWord(c) ==
  IF c >= 0 THEN FromNat(c) ELSE [WordMax EXCEPT ![1] = @ - (-c - 1)]

\* line 44: hash_val = hash_val * 31 + c
HashStep(hv, c) == Low(AddBig(MulDigit(hv, 31, 0), CharToWord(c), 0), WordBits)

\* lines 43-45: hash_val after the first i chars of the key
HashPrefix(key) ==
  LET hv[i \in 0 .. Len(key)] ==
        IF i = 0 THEN << >> ELSE HashStep(hv[i - 1], key[i])
  IN hv

HashVal(key) == HashPrefix(key)[Len(key)]

\* double A = 0.6180339887 is 5566755282423243 * 2^-53; the significand in
\* base 2^15, least significant digit first
GoldenMant == <<3531, 28242, 7100, 158>>

\* ScaledFrac with the product rounded to the nearest integer, as
\* (int) lround(frac * size) would give
ScaledFracRounded(hv, n) ==
  LET hd   == ToDouble(hv)
      prod == ToDouble(MulBig(hd.mant, GoldenMant, 1))
      e    == prod.exp + hd.exp - MantBits
  IN IF e >= 0
     THEN 0
     ELSE LET k == -e
              f == Low(prod.mant, k)
              q == ToDouble(MulBig(f, FromNat(n), 1))
          IN ToNat(RoundShift(ShiftLeft(q.mant, q.exp), k))

\* lines 48-51: frac of (double) hash_val * A, scaled by |size|, truncated
ScaledFrac(hv, n) ==
  LET hd   == ToDouble(hv)
      prod == ToDouble(MulBig(hd.mant, GoldenMant, 1))
      e    == prod.exp + hd.exp - MantBits  \* product = prod.mant * 2^e
  IN IF e >= 0
     THEN 0
     ELSE LET k == -e
              f == Low(prod.mant, k)        \* frac = f * 2^-k
              q == ToDouble(MulBig(f, FromNat(n), 1))
          IN ToNat(ShiftRight(ShiftLeft(q.mant, q.exp), k))

\* lines 48-53: the index for the final hash_val; the sign of the product
\* is the sign of size
Hash2Index(sz, hv) ==
  LET v == ScaledFrac(hv, Abs(sz))
  IN IF sz < 0 THEN -v ELSE v

hash_function2(sz, key) == Hash2Index(sz, HashVal(key))

\* hash_function2 is pure: its results on the sizes and keys of the model,
\* computed once
Hash2Table == [sz \in CreateSizes, key \in Keys |-> hash_function2(sz, key)]

\* (*hf)(hash_table, key)
ApplyHash(hf, sz, key) ==
  CASE hf = "hash_function1" -> hash_function1(sz, key)
    [] hf = "hash_function2" -> Hash2Table[sz, key]

\* the index is one of array[0 .. size-1]
InRange(idx, sz) == idx \in 0 .. (sz - 1)

----------------------------------------------------------------------------
(* Chains. *)

\* the node ids met by `for (n = head; n != NULL; n = n->next)`, in order
RECURSIVE Chain(_, _)
Chain(h, head) ==
  IF head = NULL THEN << >> ELSE <<head>> \o Chain(h, h[head].next)

\* free(n->key); free(n);
Free(fr, n) == [fr EXCEPT ![n] = @ + 1]

\* FreeAll stopping in front of the last node, as a loop on
\* `current->next != NULL` would
RECURSIVE FreeAllButLast(_, _)
FreeAllButLast(fr, ids) ==
  IF Len(ids) <= 1 THEN fr ELSE FreeAllButLast(Free(fr, Head(ids)), Tail(ids))

\* lines 79-89, 99-111: every node of every bucket is freed
RECURSIVE FreeAll(_, _)
FreeAll(fr, ids) ==
  IF ids = << >> THEN fr ELSE FreeAll(Free(fr, Head(ids)), Tail(ids))

\* The storage of a freed node is indeterminate: the model keeps no content
\* for it.
Freed == [key |-> << >>, value |-> 0, next |-> NULL]

Scrub(h, n) == [h EXCEPT ![n] = Freed]

RECURSIVE ScrubAll(_, _)
ScrubAll(h, ids) ==
  IF ids = << >> THEN h ELSE ScrubAll(Scrub(h, Head(ids)), Tail(ids))

\* every node reachable from the buckets, bucket by bucket, head to tail
RECURSIVE AllNodes(_, _, _, _)
AllNodes(h, arr, i, sz) ==
  IF i >= sz THEN << >> ELSE Chain(h, arr[i]) \o AllNodes(h, arr, i + 1, sz)

\* op: the name of the last call, its return value (0 for void), the node it
\* allocated or unlinked, the final value of the local `prev` of remove, the
\* key passed to remove or to a direct call of a hash function (for a call
\* of hash_function2 in its loop: the chars read so far), and the local
\* hash_val of a direct call of hash_function2
NoOp == [name |-> "none", ret |-> 0, node |-> NULL, prev |-> UNINIT,
         key |-> << >>, hash_val |-> << >>]

\* what display() prints of the table: total, and per bucket the chain as
\* (node, key, value) from head to tail
TableView(h, arr, tot) ==
  [total  |-> tot,
   chains |-> [i \in DOMAIN arr |->
                 LET c == Chain(h, arr[i])
                 IN [p \in 1 .. Len(c) |-> <<c[p], h[c[p]].key, h[c[p]].value>>]]]

NoPre == [valid |-> FALSE, view |-> TableView(<< >>, << >>, 0)]

----------------------------------------------------------------------------
(* hash_table_create *)

Create(sz) ==
  /\ status = "none"
  /\ status' = "live"
  /\ size' = sz
  /\ total' = 0
  /\ array' = [i \in 0 .. (sz - 1) |-> NULL]
  /\ nadd' = 0
  /\ nrem' = 0
  /\ pre' = NoPre
  /\ op' = [NoOp EXCEPT !.name = "create"]
  /\ UNCHANGED <<heap, frees>>

----------------------------------------------------------------------------
(* hash_table_add *)

\* lines 119-125: the new node, allocated before the hash is computed
NewNode(key, value) == [key |-> key, value |-> value, next |-> NULL]

\* AddLink without line 130: the new node's next stays NULL and the old
\* chain of the bucket is lost
AddLinkDropsChain(idx, n, key, value) ==
  /\ heap' = Append(heap, NewNode(key, value))
  /\ array' = [array EXCEPT ![idx] = n]
  /\ total' = total + 1

\* AddLink with line 130 reading bucket 0 whatever the index: the new node
\* of another bucket points into the chain of bucket 0
AddLinkSharesChain(idx, n, key, value) ==
  /\ heap' = Append(heap, [NewNode(key, value) EXCEPT !.next = array[0]])
  /\ array' = [array EXCEPT ![idx] = n]
  /\ total' = total + 1

\* AddLink ignoring the hash index: every new node goes to bucket 0
AddLinkFirstBucket(idx, n, key, value) ==
  /\ heap' = Append(heap, [NewNode(key, value) EXCEPT !.next = array[0]])
  /\ array' = [array EXCEPT ![0] = n]
  /\ total' = total + 1

\* lines 130-133: link the new node n in front of bucket idx, count it
AddLink(idx, n, key, value) ==
  /\ heap' = Append(heap, [NewNode(key, value) EXCEPT !.next = array[idx]])
  /\ array' = [array EXCEPT ![idx] = n]
  /\ total' = total + 1

\* lines 130-133 with hash_index outside the bucket array, or line 127 with
\* a trapping hash function: undefined behaviour.  The process dies, or it
\* goes on with memory outside the array read as `next` and overwritten; the
\* value read is indeterminate: a wild pointer, NULL or the address of a node.
AddOutOfRange(hf, key, value) ==
  \/ /\ status' = "aborted"
     /\ heap' = Append(heap, NewNode(key, value))
     /\ UNCHANGED <<total, array>>
  \/ /\ ~HashTraps(hf, size)
     /\ status' = "corrupted"
     /\ \E garbage \in {WILD} \cup (0 .. Len(heap)) :
          heap' = Append(heap, [NewNode(key, value) EXCEPT !.next = garbage])
     /\ total' = total + 1
     /\ UNCHANGED array

Add(hf, key, value) ==
  /\ status = "live"
  /\ Len(heap) < MaxNodes
  /\ LET n   == Len(heap) + 1
         idx == ApplyHash(hf, size, key)
     IN /\ IF ~HashTraps(hf, size) /\ InRange(idx, size)
           THEN AddLink(idx, n, key, value) /\ UNCHANGED status
           ELSE AddOutOfRange(hf, key, value)
        /\ frees' = Append(frees, 0)
        /\ nadd' = nadd + 1
        /\ pre' = [valid |-> TRUE, view |-> TableView(heap, array, total)]
        /\ op' = [NoOp EXCEPT !.name = "add", !.node = n]
        /\ UNCHANGED <<size, nrem>>

----------------------------------------------------------------------------
(* hash_table_remove *)

\* RemoveHead without line 155: `total` is not decremented
RemoveHeadKeepsTotal(idx, temp, key) ==
  /\ array' = [array EXCEPT ![idx] = heap[temp].next]
  /\ frees' = Free(frees, temp)
  /\ heap' = Scrub(heap, temp)
  /\ nrem' = nrem + 1
  /\ op' = [NoOp EXCEPT !.name = "remove", !.ret = 1, !.node = temp, !.key = key]
  /\ UNCHANGED <<status, total>>

\* lines 149-157: the key is at the start of the bucket
RemoveHead(idx, temp, key) ==
  /\ array' = [array EXCEPT ![idx] = heap[temp].next]
  /\ frees' = Free(frees, temp)
  /\ heap' = Scrub(heap, temp)
  /\ total' = total - 1
  /\ nrem' = nrem + 1
  /\ op' = [NoOp EXCEPT !.name = "remove", !.ret = 1, !.node = temp, !.key = key]
  /\ UNCHANGED status

\* Search going on to the last entry with the key instead of the first
RECURSIVE SearchLastMatch(_, _, _, _)
SearchLastMatch(h, key, temp, prev) ==
  IF temp # NULL
     /\ (h[temp].key # key
           \/ \E p \in 1 .. Len(Chain(h, h[temp].next)) :
                 h[Chain(h, h[temp].next)[p]].key = key)
  THEN SearchLastMatch(h, key, h[temp].next, temp)
  ELSE [temp |-> temp, prev |-> prev]

\* Search with `temp->next != NULL` for `temp != NULL`: it stops on the last
\* entry of the chain, found or not
RECURSIVE SearchStopsAtLast(_, _, _, _)
SearchStopsAtLast(h, key, temp, prev) ==
  IF temp # NULL /\ h[temp].next # NULL /\ h[temp].key # key
  THEN SearchStopsAtLast(h, key, h[temp].next, temp)
  ELSE [temp |-> temp, prev |-> prev]

\* Search without line 162: `prev` is never assigned
RECURSIVE SearchKeepsPrev(_, _, _, _)
SearchKeepsPrev(h, key, temp, prev) ==
  IF temp # NULL /\ h[temp].key # key
  THEN SearchKeepsPrev(h, key, h[temp].next, prev)
  ELSE [temp |-> temp, prev |-> prev]

\* lines 160-164: while (temp != NULL && strcmp(temp->key, key) != 0)
RECURSIVE Search(_, _, _, _)
Search(h, key, temp, prev) ==
  IF temp # NULL /\ h[temp].key # key
  THEN Search(h, key, h[temp].next, temp)
  ELSE [temp |-> temp, prev |-> prev]

\* lines 167-170: the key is not found
RemoveNotFound(key) ==
  /\ op' = [NoOp EXCEPT !.name = "remove", !.ret = 0, !.key = key]
  /\ UNCHANGED <<status, total, array, heap, frees, nrem>>

\* lines 172-179: unlink temp behind prev
RemoveUnlink(temp, prev, key) ==
  IF prev = UNINIT
  THEN \* prev->next through an uninitialized pointer: undefined behaviour
       /\ status' \in {"aborted", "corrupted"}
       /\ op' = [NoOp EXCEPT !.name = "remove", !.node = temp, !.key = key]
       /\ UNCHANGED <<total, array, heap, frees, nrem>>
  ELSE /\ heap' = Scrub([heap EXCEPT ![prev].next = heap[temp].next], temp)
       /\ frees' = Free(frees, temp)
       /\ nrem' = nrem + 1
       /\ op' = [NoOp EXCEPT !.name = "remove", !.ret = 1, !.node = temp,
                             !.prev = prev, !.key = key]
       /\ UNCHANGED <<status, total, array>>

\* line 148 with hash_index outside the bucket array, or line 145 with a
\* trapping hash function: undefined behaviour
RemoveOutOfRange(hf, key) ==
  /\ \/ status' = "aborted"
     \/ ~HashTraps(hf, size) /\ status' = "corrupted"
  /\ op' = [NoOp EXCEPT !.name = "remove", !.key = key]
  /\ UNCHANGED <<total, array, heap, frees, nrem>>

Remove(hf, key) ==
  /\ status = "live"
  /\ LET idx == ApplyHash(hf, size, key)
     IN IF HashTraps(hf, size) \/ ~InRange(idx, size)
        THEN RemoveOutOfRange(hf, key)
        ELSE LET temp == array[idx]
             IN IF temp # NULL /\ heap[temp].key = key
                THEN RemoveHead(idx, temp, key)
                ELSE LET s == Search(heap, key, temp, UNINIT)
                     IN IF s.temp = NULL
                        THEN RemoveNotFound(key)
                        ELSE RemoveUnlink(s.temp, s.prev, key)
  /\ pre' = IF op.name = "add" /\ op'.ret = 1 /\ op'.node = op.node
            THEN pre ELSE NoPre
  /\ UNCHANGED <<size, nadd>>

----------------------------------------------------------------------------
(* hash_table_reset and hash_table_free *)

\* reset without line 109: `total` keeps its value
ResetKeepsTotal(tot, ns) == tot

\* line 109: hash_table->total--, once per node released
ResetTotal(tot, ns) == tot - Len(ns)

Reset ==
  /\ status = "live"
  /\ LET ns == AllNodes(heap, array, 0, size)
     IN /\ frees' = FreeAll(frees, ns)
        /\ heap' = ScrubAll(heap, ns)
        /\ total' = ResetTotal(total, ns)
  /\ array' = [i \in DOMAIN array |-> NULL]
  /\ nadd' = 0
  /\ nrem' = 0
  /\ pre' = NoPre
  /\ op' = [NoOp EXCEPT !.name = "reset"]
  /\ UNCHANGED <<status, size>>

Destroy ==
  /\ status = "live"
  /\ LET ns == AllNodes(heap, array, 0, size)
     IN /\ frees' = FreeAll(frees, ns)
        /\ heap' = ScrubAll(heap, ns)
  /\ array' = [i \in DOMAIN array |-> NULL]
  /\ status' = "destroyed"
  /\ pre' = NoPre
  /\ op' = [NoOp EXCEPT !.name = "free"]
  /\ UNCHANGED <<size, total, nadd, nrem>>

----------------------------------------------------------------------------
(* hash_table_collisions *)

\* CountCollisions with `num_col += count` for `num_col += count - 1`: every
\* entry of a shared bucket is counted
RECURSIVE CountEveryEntry(_, _, _, _)
CountEveryEntry(h, arr, i, sz) ==
  IF i >= sz THEN 0
  ELSE LET count == Len(Chain(h, arr[i]))
       IN (IF count > 1 THEN count ELSE 0) + CountEveryEntry(h, arr, i + 1, sz)

\* lines 190-203: per bucket, count the chain; add count - 1 if count > 1
RECURSIVE CountCollisions(_, _, _, _)
CountCollisions(h, arr, i, sz) ==
  IF i >= sz THEN 0
  ELSE LET count == Len(Chain(h, arr[i]))
       IN (IF count > 1 THEN count - 1 ELSE 0) + CountCollisions(h, arr, i + 1, sz)

Collisions ==
  /\ status = "live"
  /\ op' = [NoOp EXCEPT !.name = "collisions",
                        !.ret = CountCollisions(heap, array, 0, size)]
  /\ pre' = NoPre
  /\ UNCHANGED <<status, size, total, array, heap, frees, nadd, nrem>>

----------------------------------------------------------------------------
(* The table and its callers. *)

Init ==
  /\ status = "none"
  /\ size = 0
  /\ total = 0
  /\ array = << >>
  /\ heap = << >>
  /\ frees = << >>
  /\ nadd = 0
  /\ nrem = 0
  /\ pre = NoPre
  /\ op = NoOp

Next ==
  \/ \E sz \in CreateSizes : Create(sz)
  \/ \E hf \in HashFns, kv \in AddArgs : Add(hf, kv[1], kv[2])
  \/ \E hf \in HashFns, key \in Keys : Remove(hf, key)
  \/ Reset
  \/ Destroy
  \/ Collisions

Spec == Init /\ [][Next]_vars

----------------------------------------------------------------------------
(* hash_function1 called directly, on every one-char key and on tables of  *)
(* every size 1 .. MaxHashSize.                                            *)

HashKeys == { <<c>> : c \in Chars \ {0} }

InitHash ==
  /\ status = "live"
  /\ size \in 1 .. MaxHashSize
  /\ total = 0
  /\ array = [i \in 0 .. (size - 1) |-> NULL]
  /\ heap = << >>
  /\ frees = << >>
  /\ nadd = 0
  /\ nrem = 0
  /\ pre = NoPre
  /\ op = NoOp

CallHash1(key) ==
  /\ status = "live"
  /\ op' = [NoOp EXCEPT !.name = "hash_function1", !.key = key,
                        !.ret = hash_function1(size, key)]
  /\ UNCHANGED <<status, size, total, array, heap, frees, nadd, nrem, pre>>

NextHash == \E key \in HashKeys : CallHash1(key)

SpecHash == InitHash /\ [][NextHash]_vars

----------------------------------------------------------------------------
(* hash_function2 called directly and followed through its loop, one char  *)
(* per step, on keys over Hash2Chars of up to MaxKeyLen chars.             *)

\* INT_MAX, 2^31 - 1
IntMax == 2 ^ 30 + (2 ^ 30 - 1)

\* 'a' and the byte 0xC3, which is negative as a char
Hash2Chars == { 97, -61 }

Hash2Sizes == { 1, MaxHashSize, 10 ^ 3, IntMax }

\* line 39: the call has been entered, hash_val = 0
InitHash2 ==
  /\ status = "live"
  /\ size \in Hash2Sizes
  /\ total = 0
  /\ array = << >>
  /\ heap = << >>
  /\ frees = << >>
  /\ nadd = 0
  /\ nrem = 0
  /\ pre = NoPre
  /\ op = [NoOp EXCEPT !.name = "hash_function2 loop"]

\* lines 43-44: the next char c of the key is not NUL
Hash2Loop(c) ==
  /\ op.name = "hash_function2 loop"
  /\ Len(op.key) < MaxKeyLen
  /\ op' = [op EXCEPT !.key = Append(@, c), !.hash_val = HashStep(@, c)]
  /\ UNCHANGED <<status, size, total, array, heap, frees, nadd, nrem, pre>>

\* lines 43, 48-53: the next char is NUL, the index is computed and returned
Hash2Return ==
  /\ op.name = "hash_function2 loop"
  /\ op' = [op EXCEPT !.name = "hash_function2",
                      !.ret = Hash2Index(size, op.hash_val)]
  /\ UNCHANGED <<status, size, total, array, heap, frees, nadd, nrem, pre>>

NextHash2 ==
  \/ \E c \in Hash2Chars : Hash2Loop(c)
  \/ Hash2Return

SpecHash2 == InitHash2 /\ [][NextHash2]_vars

----------------------------------------------------------------------------
(* Properties. *)

\* the call uses the table as its contract allows: the table is live and
\* the hash function returns an index of the bucket array
ValidCall(hf, key) ==
  /\ status = "live"
  /\ ~HashTraps(hf, size)
  /\ InRange(ApplyHash(hf, size, key), size)

\* the positions of chain c (node ids) whose entry has the key
Matches(h, c, key) == { p \in 1 .. Len(c) : h[c[p]].key = key }

\* chain c without position p
Without(c, p) == SubSeq(c, 1, p - 1) \o SubSeq(c, p + 1, Len(c))

FirstOf(ps) == CHOOSE p \in ps : \A q \in ps : p <= q

\* C1: in every live state `total` equals the sum over all buckets of the
\* chain lengths.
C1_TotalIsSumOfChainLengths ==
  status = "live" => total = Len(AllNodes(heap, array, 0, size))

\* C2: in every live state `total` equals the number of add calls minus the
\* number of remove calls that returned true since the last reset / create
\* (every successful remove lowers `total` by one, wherever the entry was).
C2_TotalIsAddsMinusRemoves ==
  status = "live" => total = nadd - nrem

\* C3: reset, from every live state, leaves every bucket empty, `size`
\* unchanged and `total` = 0.
C3_ResetEmptiesTable ==
  [][Reset => /\ \A i \in DOMAIN array' : array'[i] = NULL
              /\ size' = size
              /\ total' = 0]_vars

\* C4: remove(table, hf, key) returns true exactly if bucket hf(size, key)
\* holds an entry with the key, and then unlinks and frees exactly the first
\* such entry in head-to-tail order, which is the most recently added of
\* them; the other entries of the chain keep their order and the other
\* buckets are untouched.  The number of entries with the key in the bucket
\* drops by one per successful call, so m entries give m calls returning
\* true and then one returning false.
C4_RemoveUnlinksFirstMatch ==
  [][\A hf \in HashFns, key \in Keys :
       (op'.name = "remove" /\ op'.key = key
          /\ Remove(hf, key) /\ ValidCall(hf, key)) =>
         LET idx == ApplyHash(hf, size, key)
             c   == Chain(heap, array[idx])
             m   == Matches(heap, c, key)
             c2  == Chain(heap', array'[idx])
         IN /\ \A j \in DOMAIN array \ {idx} :
                 Chain(heap', array'[j]) = Chain(heap, array[j])
            /\ \A n \in 1 .. Len(c2) :
                 /\ heap'[c2[n]].key = heap[c2[n]].key
                 /\ heap'[c2[n]].value = heap[c2[n]].value
            /\ IF m = {}
               THEN op'.ret = 0 /\ c2 = c
               ELSE /\ op'.ret = 1
                    /\ op'.node = c[FirstOf(m)]
                    /\ \A q \in m : c[q] <= op'.node
                    /\ c2 = Without(c, FirstOf(m))
                    /\ frees'[op'.node] = frees[op'.node] + 1
                    /\ Cardinality(Matches(heap', c2, key)) = Cardinality(m) - 1
    ]_vars

\* C4 witness: a remove has unlinked an entry from inside a chain, and an
\* older entry with the same key now follows the predecessor.
C4_Witness ==
  /\ status = "live"
  /\ op.name = "remove" /\ op.ret = 1 /\ op.prev # UNINIT
  /\ heap[op.prev].next # NULL
  /\ heap[heap[op.prev].next].key = op.key

\* C5: remove of a key that bucket hf(size, key) does not hold returns false
\* and changes nothing: status, size, total, the bucket array, every node
\* and every free count are as before the call.
C5_RemoveAbsentChangesNothing ==
  [][\A hf \in HashFns, key \in Keys :
       (/\ op'.name = "remove" /\ op'.key = key
        /\ Remove(hf, key)
        /\ ValidCall(hf, key)
        /\ Matches(heap, Chain(heap, array[ApplyHash(hf, size, key)]), key) = {}) =>
         /\ op'.ret = 0
         /\ UNCHANGED <<status, size, total, array, heap, frees>>
    ]_vars

\* C5 witness: a remove has returned false on a table that holds entries and
\* from which an entry was removed before.
C5_Witness ==
  /\ status = "live"
  /\ op.name = "remove" /\ op.ret = 0
  /\ nrem > 0
  /\ AllNodes(heap, array, 0, size) # << >>

\* C6: a remove of key k that immediately follows add(t, hf, k, v), with a
\* hash function sending k to the bucket the add used, returns true and
\* leaves `total` and every chain (entries and order) as before the add.
C6_AddThenRemoveRestores ==
  [][\A hf \in HashFns, key \in Keys :
       (/\ op.name = "add"
        /\ op'.name = "remove" /\ op'.key = key
        /\ Remove(hf, key)
        /\ ValidCall(hf, key)
        /\ heap[op.node].key = key
        /\ array[ApplyHash(hf, size, key)] = op.node) =>
         /\ op'.ret = 1
         /\ total' = pre.view.total
         /\ TableView(heap', array', total') = pre.view
    ]_vars

\* C6 witness: an add of a key already in the table was followed by a remove
\* that returned true, and the table is as before the add.
C6_Witness ==
  /\ status = "live"
  /\ op.name = "remove" /\ op.ret = 1
  /\ pre.valid
  /\ TableView(heap, array, total) = pre.view
  /\ \E i \in DOMAIN array :
       Matches(heap, Chain(heap, array[i]), op.key) # {}

\* C7: add(table, hf, key, value) puts a new entry (key, value) at the head
\* of bucket hf(size, key), in front of the unchanged previous chain, whether
\* or not the key is already there; `total` grows by one, `size`, the other
\* buckets and all existing entries are unchanged.
C7_AddPrependsEntry ==
  [][\A hf \in HashFns, kv \in AddArgs :
       (op'.name = "add" /\ Add(hf, kv[1], kv[2]) /\ ValidCall(hf, kv[1])) =>
         LET key   == kv[1]
             value == kv[2]
             idx   == ApplyHash(hf, size, key)
             n     == op'.node
         IN /\ n \notin DOMAIN heap
            /\ array'[idx] = n
            /\ heap'[n].key = key /\ heap'[n].value = value
            /\ Chain(heap', array'[idx]) = <<n>> \o Chain(heap, array[idx])
            /\ \A j \in DOMAIN array \ {idx} : array'[j] = array[j]
            /\ \A o \in DOMAIN heap : heap'[o] = heap[o]
            /\ total' = total + 1
            /\ size' = size
            /\ status' = status
    ]_vars

\* C7 witness: an add has put an entry directly in front of an entry with
\* the same key.
C7_Witness ==
  /\ status = "live"
  /\ op.name = "add"
  /\ heap[op.node].next # NULL
  /\ heap[heap[op.node].next].key = heap[op.node].key

\* C8: add and remove stop (assertion / panic) on a hash index outside
\* [0, size) before any bucket is read or written: no call ever goes on after
\* an access outside the bucket array.
C8_OutOfRangeIndexFailsFast ==
  status # "corrupted"

\* C9: hash_function1 returns r with 0 <= r < size for every non-empty key
\* and every size > 0.
C9_HashNaiveInRange ==
  op.name = "hash_function1" => (0 <= op.ret /\ op.ret < size)

\* C10: create(size) yields a live table only for size > 0.
C10_CreateRejectsNonPositiveSize ==
  status = "live" => size > 0

\* the sum of f[i] over the indices in set s
RECURSIVE SumOver(_, _)
SumOver(f, s) ==
  IF s = {} THEN 0
  ELSE LET i == CHOOSE j \in s : TRUE IN f[i] + SumOver(f, s \ {i})

Max(a, b) == IF a >= b THEN a ELSE b

\* per bucket, max(n - 1, 0) for its chain length n
Surplus(h, arr) == [i \in DOMAIN arr |-> Max(Len(Chain(h, arr[i])) - 1, 0)]

\* C11: collisions(table) returns the sum over all buckets of max(n - 1, 0),
\* n the chain length of the bucket, from every live state, and changes
\* nothing: status, size, total, the bucket array, every node and every free
\* count are as before the call.  It returns 0 whenever no bucket holds more
\* than one entry.
C11_CollisionsIsSumOfSurplus ==
  [][Collisions =>
       /\ op'.ret = SumOver(Surplus(heap, array), DOMAIN array)
       /\ UNCHANGED <<status, size, total, array, heap, frees>>
       /\ (\A i \in DOMAIN array : Len(Chain(heap, array[i])) <= 1) => op'.ret = 0
    ]_vars

\* C11 witness: collisions has returned a positive count on a table that
\* also has a bucket with exactly one entry.
C11_Witness ==
  /\ status = "live"
  /\ op.name = "collisions" /\ op.ret > 0
  /\ \E i \in DOMAIN array : Len(Chain(heap, array[i])) = 1

\* since create the table has seen N >= 1 add calls and no entry has been
\* released: every node ever allocated was added after the last reset and
\* none has been freed, so no remove has succeeded
AddsOnly ==
  /\ status = "live"
  /\ nadd >= 1
  /\ nadd = Len(heap)
  /\ \A n \in DOMAIN frees : frees[n] = 0

\* C12: on a table of size 1, collisions after N >= 1 add calls and no
\* remove returns N - 1 whatever the keys and hash functions; a reset that
\* follows leaves `total` = 0 and no collisions, and collisions called right
\* after a reset returns 0.
C12_SingleBucketCollisions ==
  /\ [][(Collisions /\ size = 1 /\ AddsOnly) => op'.ret = nadd - 1]_vars
  /\ [][(Reset /\ size = 1 /\ AddsOnly) =>
          /\ total' = 0
          /\ CountCollisions(heap', array', 0, size') = 0]_vars
  /\ [][(Collisions /\ size = 1 /\ op.name = "reset") => op'.ret = 0]_vars

\* C12 witness: on a table of size 1 that was filled with MaxNodes entries,
\* all released once by a reset, collisions has returned 0 and `total` is 0.
C12_Witness ==
  /\ status = "live" /\ size = 1
  /\ op.name = "collisions" /\ op.ret = 0
  /\ total = 0 /\ nadd = 0 /\ nrem = 0
  /\ Len(heap) = MaxNodes
  /\ \A n \in DOMAIN frees : frees[n] = 1

\* the keys of the entries of the table, bucket by bucket
KeysIn(h, arr, sz) ==
  LET ns == AllNodes(h, arr, 0, sz) IN [p \in 1 .. Len(ns) |-> h[ns[p]].key]

\* no two entries of the table have the same key
DistinctKeys ==
  LET ks == KeysIn(heap, array, size)
  IN \A p, q \in 1 .. Len(ks) : ks[p] = ks[q] => p = q

\* every entry of the table sits in the bucket hf gives for its key
PlacedBy(hf) ==
  /\ ~HashTraps(hf, size)
  /\ \A i \in DOMAIN array :
       \A p \in 1 .. Len(Chain(heap, array[i])) :
          ApplyHash(hf, size, heap[Chain(heap, array[i])[p]].key) = i

\* C13: on a table whose entries have pairwise distinct keys and were all
\* placed by hash function hf, a remove of a present key with hf returns true
\* and lowers `total` by exactly one, wherever the entry is in its chain, and
\* a second remove of the same key right after it returns false and leaves
\* `total` unchanged.
C13_RemoveLowersTotalOnce ==
  [][\A hf \in HashFns, key \in Keys :
       (/\ op'.name = "remove" /\ op'.key = key
        /\ Remove(hf, key)
        /\ ValidCall(hf, key)
        /\ DistinctKeys /\ PlacedBy(hf)) =>
         IF \E p \in 1 .. Len(KeysIn(heap, array, size)) :
               KeysIn(heap, array, size)[p] = key
         THEN op'.ret = 1 /\ total' = total - 1
         ELSE (op.name = "remove" /\ op.ret = 1 /\ op.key = key) =>
                 (op'.ret = 0 /\ total' = total)
    ]_vars

\* C14: hash_function2 returns r with 0 <= r < size for every non-empty key
\* and every size > 0, keys whose hash_val has wrapped modulo 2^64 or no
\* longer fits the significand of a double included.
C14_HashImprovedInRange ==
  (op.name = "hash_function2" /\ op.key # << >> /\ size > 0) =>
     (0 <= op.ret /\ op.ret < size)

\* C14 witness: hash_function2 has returned for a key of MaxKeyLen chars
\* 'a' on a table of more than one bucket.  97 * 31^12 exceeds 2^64, so
\* hash_val has wrapped; it has more than MantBits bits, so the double
\* product has no fractional bits and the index is 0.
C14_Witness ==
  /\ op.name = "hash_function2"
  /\ size > 1
  /\ Len(op.key) = MaxKeyLen
  /\ \A i \in 1 .. Len(op.key) : op.key[i] = 97
  /\ BitLen(op.hash_val) > MantBits
  /\ op.ret = 0

\* the nodes met from head by following next, at most fuel of them
RECURSIVE Walk(_, _, _)
Walk(h, head, fuel) ==
  IF head = NULL \/ fuel = 0 THEN << >>
  ELSE <<head>> \o Walk(h, h[head].next, fuel - 1)

\* the walk from head ends in NULL, through nodes of the heap and without
\* meeting a node twice
EndsInNull(h, head) ==
  LET w == Walk(h, head, Len(h) + 1)
  IN /\ Len(w) <= Len(h)
     /\ \A p \in 1 .. Len(w) : w[p] \in DOMAIN h /\ h[w[p]].next \in {NULL} \cup DOMAIN h
     /\ \A p, q \in 1 .. Len(w) : w[p] = w[q] => p = q

\* the places (bucket, position) at which node n is met
PlacesOf(n) ==
  { ip \in (DOMAIN array) \X (1 .. Len(heap)) :
      LET w == Walk(heap, array[ip[1]], Len(heap))
      IN ip[2] <= Len(w) /\ w[ip[2]] = n }

\* C15: in every live state every chain is finite and acyclic, and every
\* entry (node allocated and not freed) is met from exactly one bucket head
\* at exactly one position: no entry is shared between two chains, appears
\* twice, or is out of reach.
C15_ChainsWellFormed ==
  status = "live" =>
    /\ \A i \in DOMAIN array : EndsInNull(heap, array[i])
    /\ \A n \in DOMAIN heap : frees[n] = 0 => Cardinality(PlacesOf(n)) = 1

\* C15 witness: a remove has unlinked an entry from inside a chain and two
\* buckets hold entries.
C15_Witness ==
  /\ status = "live"
  /\ op.name = "remove" /\ op.ret = 1 /\ op.prev # UNINIT
  /\ Cardinality({ i \in DOMAIN array : array[i] # NULL }) >= 2

\* the nodes allocated by add and not freed
Allocated == { n \in DOMAIN heap : frees[n] = 0 }

\* the nodes met from the bucket heads
Reachable ==
  { n \in DOMAIN heap : \E i \in DOMAIN array :
      \E p \in 1 .. Len(Walk(heap, array[i], Len(heap))) :
         Walk(heap, array[i], Len(heap))[p] = n }

\* C16: entry storage is neither leaked nor freed twice.  In every live
\* state the allocated and not freed entries are exactly the entries met
\* from the buckets and no entry has been freed twice; a remove that returns
\* true frees exactly the entry it unlinked, a remove that returns false
\* frees nothing, a reset frees exactly the entries of the table; after
\* hash_table_free every entry ever allocated has been freed exactly once.
C16_NoLeakNoDoubleFree ==
  /\ [](status = "live" =>
          /\ Allocated = Reachable
          /\ \A n \in DOMAIN frees : frees[n] <= 1)
  /\ [](status = "destroyed" => \A n \in DOMAIN frees : frees[n] = 1)
  /\ [][(op'.name = "remove" /\ status' = "live") =>
          \A n \in DOMAIN frees :
             frees'[n] = frees[n] + (IF op'.ret = 1 /\ n = op'.node THEN 1 ELSE 0)]_vars
  /\ [][Reset =>
          \A n \in DOMAIN frees :
             frees'[n] = frees[n] + (IF n \in Reachable THEN 1 ELSE 0)]_vars

\* C16 witness: a table from which an entry was removed has been destroyed
\* while it held entries, and all MaxNodes entries are freed once.
C16_Witness ==
  /\ status = "destroyed"
  /\ Len(heap) = MaxNodes
  /\ nrem >= 1 /\ nadd > nrem
  /\ \A n \in DOMAIN frees : frees[n] = 1

\* some entry of the table has the key
Holds(key) ==
  \E p \in 1 .. Len(KeysIn(heap, array, size)) : KeysIn(heap, array, size)[p] = key

\* C17: while every add and remove on a table uses one hash function hf,
\* every entry sits in bucket hf(size, entry.key): this holds of the table
\* just created and is kept by every add and remove with hf and by every
\* other call; and on such a table remove(t, hf, k) returns true if and only
\* if some entry with key k exists anywhere in the table.  (That a remove
\* with another hash function can return false for a present key is shown
\* by C17_Witness.)
C17_SameHashFindsEveryKey ==
  /\ [](op.name = "create" => \A hf \in HashFns : HashTraps(hf, size) \/ PlacedBy(hf))
  /\ [][\A hf \in HashFns :
          (/\ status = "live" /\ status' = "live"
           /\ PlacedBy(hf)
           /\ \/ op'.name \notin {"add", "remove"}
              \/ \E kv \in AddArgs : Add(hf, kv[1], kv[2])
              \/ \E key \in Keys : Remove(hf, key)) =>
            /\ PlacedBy(hf)'
            /\ op'.name = "remove" => (op'.ret = 1 <=> Holds(op'.key))
       ]_vars

\* C17 witness: every entry of the table sits in the bucket one hash
\* function gives for its key, a remove has succeeded before, and the last
\* remove has returned false for a key that is in the table: it used
\* another hash function than the adds.
C17_Witness ==
  /\ status = "live"
  /\ op.name = "remove" /\ op.ret = 0
  /\ Holds(op.key)
  /\ nrem >= 1
  /\ \E hf \in HashFns : PlacedBy(hf)

\* C18: whenever hash_table_remove comes to `prev->next = temp->next` (the
\* bucket holds the key, but not at its head), the local `prev` has been
\* assigned: it is an entry of the searched chain, allocated and not freed,
\* and the direct predecessor of the matched entry; the call stays defined
\* and returns true.
C18_PrevIsPredecessor ==
  [][\A hf \in HashFns, key \in Keys :
       (/\ op'.name = "remove" /\ op'.key = key
        /\ Remove(hf, key)
        /\ ValidCall(hf, key)
        /\ LET c == Chain(heap, array[ApplyHash(hf, size, key)])
           IN Matches(heap, c, key) # {} /\ heap[c[1]].key # key) =>
         LET c == Chain(heap, array[ApplyHash(hf, size, key)])
             p == FirstOf(Matches(heap, c, key))
         IN /\ status' = "live"
            /\ op'.ret = 1
            /\ op'.prev # UNINIT
            /\ op'.prev = c[p - 1]
            /\ frees[op'.prev] = 0
            /\ heap[op'.prev].next = op'.node
            /\ heap[op'.node].key = key
    ]_vars

\* C18 witness: a remove has unlinked the last entry of a chain of three,
\* behind a predecessor that is not the head of the chain.
C18_Witness ==
  /\ status = "live"
  /\ op.name = "remove" /\ op.ret = 1 /\ op.prev # UNINIT
  /\ heap[op.prev].next = NULL
  /\ \E i \in DOMAIN array :
       Len(Chain(heap, array[i])) = 2 /\ Chain(heap, array[i])[2] = op.prev

====
